---- MODULE Spec2Model ----
(***************************************************************************)
(* Model of f5_lb_waf_export.py: the export of the effective WAF binding   *)
(* of every HTTP load balancer and route of a tenant.                      *)
(*                                                                         *)
(* The control plane (namespace listing, load-balancer listing, load-      *)
(* balancer configuration, firewall objects) is the environment: every     *)
(* API call draws its response from a small set.  The script itself is     *)
(* sequential; pc is its position.                                         *)
(***************************************************************************)
EXTENDS Integers, Sequences, FiniteSets, TLC

\* ---------------------------------------------------------------------
\* Bounds of the environment: routes and load balancers of the tenant, and
\* calls of get_app_firewall_details when it is exercised on its own.
\* ---------------------------------------------------------------------
MaxRoutes == 2
MaxLbs == 2
MaxCalls == 3

\* ---------------------------------------------------------------------
\* Data of the environment
\* ---------------------------------------------------------------------
ModeKeys == {"monitoring", "blocking"}

\* A JSON object returned by the app_firewalls endpoint.  nonempty = FALSE
\* is the empty dict {}; spec is the set of mode keys found under 'spec'.
EmptyDict == [nonempty |-> FALSE, spec |-> {}]

FirewallObjects == {[nonempty |-> TRUE, spec |-> s] : s \in SUBSET ModeKeys}

\* The response to one GET: an HTTP status and, for 200, the JSON body.
\* 500 stands for every failure other than 404.
Responses ==
    {[status |-> 404, json |-> EmptyDict], [status |-> 500, json |-> EmptyDict]}
    \cup {[status |-> 200, json |-> b] : b \in FirewallObjects \cup {EmptyDict}}

\* A reference {'name': ...} under the key 'app_firewall', or no such key.
\* name = "" stands for a missing, None or empty name.
AppFirewallRefs ==
    {[present |-> FALSE, name |-> ""], [present |-> TRUE, name |-> ""],
     [present |-> TRUE, name |-> "fw1"]}

\* The 'path' mapping of a simple route, as its items in key order.
PathInfos == {<<>>, << <<"prefix", "/a">>, <<"regex", "b">> >>}

\* A route after lines 153-154 (a missing simple_route or advanced_options
\* is the empty dict: no marker, no reference).
Routes ==
    [disable_waf : BOOLEAN, app_firewall : AppFirewallRefs, path : PathInfos]

SeqsUpTo(S, n) == UNION {[1..k -> S] : k \in 0..n}

NoDup(s) == \A i, j \in 1..Len(s) : i # j => s[i] # s[j]

NsNames == {"ns1", "shared"}

LbNames == {"lb1", "lb2"}

\* Python's  a or b  on strings (None and "" are falsy, both modelled by "").
Or(a, b) == IF a # "" THEN a ELSE b

RECURSIVE Join(_, _)
Join(parts, sep) ==
    IF Len(parts) = 0 THEN ""
    ELSE IF Len(parts) = 1 THEN parts[1]
    ELSE parts[1] \o sep \o Join(Tail(parts), sep)

\* Lines 157-162: "k=v" per item of the path mapping, joined by "; ".
route_path(path_info) ==
    IF Len(path_info) = 0 THEN "NA"
    ELSE Join([i \in 1..Len(path_info) |->
                  path_info[i][1] \o "=" \o path_info[i][2]], "; ")

\* Lines 112-120.
get_waf_mode(app_firewall_details) ==
    IF ~app_firewall_details.nonempty THEN ""
    ELSE IF "monitoring" \in app_firewall_details.spec THEN "monitoring"
    ELSE IF "blocking" \in app_firewall_details.spec THEN "blocking"
    ELSE ""

\* One entry of the trace of GETs a call issues.
Lookup(ns, r) == [ns |-> ns, status |-> r.status, json |-> r.json]

\* The (details, source_namespace) result when nothing was found or asked.
NoSource == "None"

Returned(details, source, trace) ==
    [raised |-> FALSE, details |-> details, source |-> source, trace |-> trace]

Raised(trace) ==
    [raised |-> TRUE, details |-> EmptyDict, source |-> NoSource, trace |-> trace]

\* Variant: the fallback stage treats every failure as not-found.
get_app_firewall_details_swallow(namespace, waf_name, r1, r2) ==
    IF waf_name = "" THEN Returned(EmptyDict, NoSource, <<>>)
    ELSE IF r1.status = 200
        THEN Returned(r1.json, namespace, <<Lookup(namespace, r1)>>)
    ELSE IF r1.status # 404
        THEN Raised(<<Lookup(namespace, r1)>>)
    ELSE IF namespace # "shared"
        THEN IF r2.status = 200
                THEN Returned(r2.json, "shared",
                              <<Lookup(namespace, r1), Lookup("shared", r2)>>)
             ELSE Returned(EmptyDict, NoSource,
                           <<Lookup(namespace, r1), Lookup("shared", r2)>>)
    ELSE Returned(EmptyDict, NoSource, <<Lookup(namespace, r1)>>)

\* Variant: the fallback is tried even when the requesting namespace is
\* shared.
get_app_firewall_details_always_fallback(namespace, waf_name, r1, r2) ==
    IF waf_name = "" THEN Returned(EmptyDict, NoSource, <<>>)
    ELSE IF r1.status = 200
        THEN Returned(r1.json, namespace, <<Lookup(namespace, r1)>>)
    ELSE IF r1.status # 404
        THEN Raised(<<Lookup(namespace, r1)>>)
    ELSE IF r2.status = 200
        THEN Returned(r2.json, "shared",
                      <<Lookup(namespace, r1), Lookup("shared", r2)>>)
    ELSE IF r2.status # 404
        THEN Raised(<<Lookup(namespace, r1), Lookup("shared", r2)>>)
    ELSE Returned(EmptyDict, NoSource,
                  <<Lookup(namespace, r1), Lookup("shared", r2)>>)

\* Lines 79-110.  r1 and r2 are the control plane's responses to the GET in
\* the requesting namespace and to the GET in shared, should they be issued.
get_app_firewall_details(namespace, waf_name, r1, r2) ==
    IF waf_name = "" THEN Returned(EmptyDict, NoSource, <<>>)
    ELSE IF r1.status = 200
        THEN Returned(r1.json, namespace, <<Lookup(namespace, r1)>>)
    ELSE IF r1.status # 404
        THEN Raised(<<Lookup(namespace, r1)>>)
    ELSE IF namespace # "shared"
        THEN IF r2.status = 200
                THEN Returned(r2.json, "shared",
                              <<Lookup(namespace, r1), Lookup("shared", r2)>>)
             ELSE IF r2.status # 404
                THEN Raised(<<Lookup(namespace, r1), Lookup("shared", r2)>>)
             ELSE Returned(EmptyDict, NoSource,
                           <<Lookup(namespace, r1), Lookup("shared", r2)>>)
    ELSE Returned(EmptyDict, NoSource, <<Lookup(namespace, r1)>>)

\* The responses the environment has to choose among for the first and the
\* second GET of a call: a GET that is not issued has no response, so one
\* arbitrary value stands for it.
FirstResponses(needed, Resps) ==
    IF needed THEN Resps ELSE {[status |-> 404, json |-> EmptyDict]}

SecondResponses(namespace, r1, Resps) ==
    IF r1.status = 404 /\ namespace # "shared" THEN Resps ELSE {r1}

\* A record of one call of get_app_firewall_details made by extract_waf_rows:
\* site 0 is the default binding, site i > 0 is the i-th route.
Call(site, namespace, waf_name, res) ==
    [site |-> site, namespace |-> namespace, waf_name |-> waf_name,
     raised |-> res.raised, details |-> res.details, source |-> res.source,
     trace |-> res.trace]

Row(namespace, lb_name, route, waf_name, waf_mode) ==
    [namespace |-> namespace, lb_name |-> lb_name, route |-> route,
     waf_name |-> waf_name, waf_mode |-> waf_mode]

\* Lines 133-141: the default binding before the row is built.  A call is
\* made only on the else branch and only with a non-empty name (line 138).
DefaultNeedsCall(spec) ==
    /\ ~spec.disable_waf
    /\ spec.app_firewall.present
    /\ spec.app_firewall.name # ""

default_binding(spec, res) ==
    IF spec.disable_waf \/ ~spec.app_firewall.present
        THEN [waf_name |-> "waf_disabled", waf_mode |-> "NA"]
    ELSE LET default_waf_info == IF spec.app_firewall.name # ""
                                    THEN res.details ELSE EmptyDict
             default_source_ns == IF spec.app_firewall.name # ""
                                    THEN res.source ELSE NoSource
         IN  [waf_name |-> IF default_source_ns = "shared"
                              /\ spec.app_firewall.name # ""
                           THEN spec.app_firewall.name \o " (shared)"
                           ELSE spec.app_firewall.name,
              waf_mode |-> get_waf_mode(default_waf_info)]

\* Variant: the override is located before the disable marker is looked at.
RouteNeedsCall_ignoring_marker(route) ==
    /\ route.app_firewall.present
    /\ route.app_firewall.name # ""

\* Lines 164-179: the binding of one route.
RouteNeedsCall(route) ==
    /\ ~route.disable_waf
    /\ route.app_firewall.present
    /\ route.app_firewall.name # ""

\* Variant: an inheriting route copies the locals without the fallbacks of
\* lines 178-179.
route_binding_raw_default(route, res, default_waf_name, default_waf_mode) ==
    IF route.disable_waf
        THEN [waf_name |-> "waf_disabled", waf_mode |-> "NA"]
    ELSE IF route.app_firewall.present /\ route.app_firewall.name # ""
        THEN IF ~res.details.nonempty
                THEN [waf_name |-> "waf_disabled", waf_mode |-> "NA"]
             ELSE [waf_name |-> IF res.source = "shared"
                                THEN route.app_firewall.name \o " (shared)"
                                ELSE route.app_firewall.name,
                   waf_mode |-> get_waf_mode(res.details)]
    ELSE [waf_name |-> default_waf_name, waf_mode |-> default_waf_mode]

\* Variant: an override that is not found keeps its name, as the default
\* binding does.
route_binding_keep_name(route, res, default_waf_name, default_waf_mode) ==
    IF route.disable_waf
        THEN [waf_name |-> "waf_disabled", waf_mode |-> "NA"]
    ELSE IF route.app_firewall.present /\ route.app_firewall.name # ""
        THEN [waf_name |-> IF res.source = "shared"
                           THEN route.app_firewall.name \o " (shared)"
                           ELSE route.app_firewall.name,
              waf_mode |-> Or(get_waf_mode(res.details), "NA")]
    ELSE [waf_name |-> Or(default_waf_name, "waf_disabled"),
          waf_mode |-> Or(default_waf_mode, "NA")]

route_binding(route, res, default_waf_name, default_waf_mode) ==
    IF route.disable_waf
        THEN [waf_name |-> "waf_disabled", waf_mode |-> "NA"]
    ELSE IF route.app_firewall.present /\ route.app_firewall.name # ""
        THEN IF ~res.details.nonempty
                THEN [waf_name |-> "waf_disabled", waf_mode |-> "NA"]
             ELSE [waf_name |-> IF res.source = "shared"
                                THEN route.app_firewall.name \o " (shared)"
                                ELSE route.app_firewall.name,
                   waf_mode |-> get_waf_mode(res.details)]
    ELSE [waf_name |-> Or(default_waf_name, "waf_disabled"),
          waf_mode |-> Or(default_waf_mode, "NA")]

\* ---------------------------------------------------------------------
\* State
\* ---------------------------------------------------------------------
VARIABLES
    pc,                 \* position of the script
    NAMESPACE,          \* --namespace argument (line 18)
    namespaces,         \* the list iterated at line 196
    ns_i,               \* index of ns in namespaces
    lb_names,           \* line 197
    lb_i,               \* index of lb_name in lb_names
    lb_details,         \* line 199
    rows,               \* extract_waf_rows: rows (line 124)
    default_waf_name,   \* extract_waf_rows: local of that name
    default_waf_mode,   \* extract_waf_rows: local of that name
    route_i,            \* index of route in spec['routes'] (line 152)
    all_rows,           \* line 194
    csv,                \* the output file (lines 205-210)
    calls,              \* history: calls of get_app_firewall_details made
                        \* for the current load balancer
    listed,             \* history: <<ns, lb_names>> per namespace listed
    fetched             \* history: lb_details per load balancer resolved

vars == <<pc, NAMESPACE, namespaces, ns_i, lb_names, lb_i, lb_details, rows,
          default_waf_name, default_waf_mode, route_i, all_rows, csv, calls,
          listed, fetched>>

fieldnames == <<"namespace", "lb_name", "route", "waf_name", "waf_mode">>

NoDetails ==
    [nonempty |-> FALSE, namespace |-> "", name |-> "",
     spec |-> [disable_waf |-> FALSE,
               app_firewall |-> [present |-> FALSE, name |-> ""],
               routes |-> <<>>]]

\* The 'spec' of a load-balancer configuration.
LbSpecs ==
    [disable_waf : BOOLEAN, app_firewall : AppFirewallRefs,
     routes : SeqsUpTo(Routes, MaxRoutes)]

\* The configurations get_lb_details can return for (ns, name) when the
\* specs are drawn from Specs; NoDetails is the empty JSON object.
LbDetails(ns, name, Specs) ==
    {NoDetails} \cup {[nonempty |-> TRUE, namespace |-> ns, name |-> name,
                       spec |-> sp] : sp \in Specs}

\* A tenant with at most one namespace and one load balancer: the listings
\* of namespaces (line 62) and of load balancers (line 69; "" is an item
\* without a name).
OneNsListings == {<<>>, <<"ns1">>, <<"shared">>}

OneLbListings == {<<>>, <<"">>, <<"lb1">>, <<"", "lb1">>}

Init ==
    /\ pc = "start"
    /\ NAMESPACE \in {"system"} \cup NsNames
    /\ namespaces = <<>>
    /\ ns_i = 1
    /\ lb_names = <<>>
    /\ lb_i = 1
    /\ lb_details = NoDetails
    /\ rows = <<>>
    /\ default_waf_name = ""
    /\ default_waf_mode = ""
    /\ route_i = 1
    /\ all_rows = <<>>
    /\ csv = [written |-> FALSE, lines |-> <<>>]
    /\ calls = <<>>
    /\ listed = <<>>
    /\ fetched = <<>>

\* An exception that nothing catches ends the script (no row is written).
Abort ==
    /\ pc' = "aborted"
    /\ UNCHANGED <<NAMESPACE, namespaces, ns_i, lb_names, lb_i, lb_details,
                   rows, default_waf_name, default_waf_mode, route_i,
                   all_rows, csv, listed, fetched>>

\* Lines 50-62 and the head of the loop of line 196.
get_namespaces(NsListings) ==
    /\ pc = "start"
    /\ \/ /\ NAMESPACE # "system"
          /\ namespaces' = <<NAMESPACE>>
          /\ pc' = "ns_loop"
          /\ UNCHANGED <<NAMESPACE, ns_i, lb_names, lb_i, lb_details, rows,
                         default_waf_name, default_waf_mode, route_i,
                         all_rows, csv, calls, listed, fetched>>
       \/ /\ NAMESPACE = "system"
          /\ \E items \in NsListings :
                /\ namespaces' = items
                /\ pc' = "ns_loop"
                /\ UNCHANGED <<NAMESPACE, ns_i, lb_names, lb_i, lb_details,
                               rows, default_waf_name, default_waf_mode,
                               route_i, all_rows, csv, calls, listed, fetched>>
       \/ /\ NAMESPACE = "system"       \* raise_for_status (line 60)
          /\ Abort
          /\ UNCHANGED calls

\* Line 70: the names of the items that have one.
Names(items) == SelectSeq(items, LAMBDA n : n # "")

\* Lines 64-70 and line 197, for the namespace namespaces[ns_i].
get_http_loadbalancers(LbListings) ==
    /\ pc = "ns_loop"
    /\ ns_i <= Len(namespaces)
    /\ \/ \E items \in LbListings :
            /\ lb_names' = Names(items)
            /\ lb_i' = 1
            /\ listed' = Append(listed, <<namespaces[ns_i], Names(items)>>)
            /\ IF Len(Names(items)) = 0
                 THEN /\ ns_i' = ns_i + 1
                      /\ pc' = "ns_loop"
                 ELSE /\ ns_i' = ns_i
                      /\ pc' = "lb_loop"
            /\ UNCHANGED <<NAMESPACE, namespaces, lb_details, rows,
                           default_waf_name, default_waf_mode, route_i,
                           all_rows, csv, calls, fetched>>
       \/ /\ Abort                      \* raise_for_status (line 67)
          /\ UNCHANGED calls

\* Lines 72-77 and line 199, for the load balancer lb_names[lb_i].
get_lb_details(Specs) ==
    /\ pc = "lb_loop"
    /\ lb_i <= Len(lb_names)
    /\ \/ \E d \in LbDetails(namespaces[ns_i], lb_names[lb_i], Specs) :
            /\ lb_details' = d
            /\ fetched' = Append(fetched, d)
            /\ calls' = <<>>
            /\ pc' = "extract"
            /\ UNCHANGED <<NAMESPACE, namespaces, ns_i, lb_names, lb_i, rows,
                           default_waf_name, default_waf_mode, route_i,
                           all_rows, csv, listed>>
       \/ /\ Abort                      \* raise_for_status (line 75)
          /\ UNCHANGED calls

\* Lines 122-149: the guard on an empty configuration, the default binding
\* and the default row.
extract_waf_rows_default(Resps) ==
    /\ pc = "extract"
    /\ IF ~lb_details.nonempty
         THEN /\ rows' = <<>>
              /\ pc' = "return"
              /\ UNCHANGED <<default_waf_name, default_waf_mode, route_i, calls>>
              /\ UNCHANGED <<NAMESPACE, namespaces, ns_i, lb_names, lb_i,
                             lb_details, all_rows, csv, listed, fetched>>
         ELSE \E r1 \in FirstResponses(DefaultNeedsCall(lb_details.spec), Resps) :
              \E r2 \in SecondResponses(lb_details.namespace, r1, Resps) :
                LET spec == lb_details.spec
                    res  == get_app_firewall_details(lb_details.namespace,
                                spec.app_firewall.name, r1, r2)
                    b    == default_binding(spec, res)
                IN  IF DefaultNeedsCall(spec) /\ res.raised
                      THEN /\ calls' = Append(calls,
                                  Call(0, lb_details.namespace,
                                       spec.app_firewall.name, res))
                           /\ Abort
                      ELSE /\ calls' = IF DefaultNeedsCall(spec)
                                         THEN Append(calls,
                                                Call(0, lb_details.namespace,
                                                     spec.app_firewall.name, res))
                                         ELSE calls
                           /\ default_waf_name' = b.waf_name
                           /\ default_waf_mode' = b.waf_mode
                           /\ rows' = <<Row(lb_details.namespace, lb_details.name,
                                            "NA",
                                            Or(b.waf_name, "waf_disabled"),
                                            Or(b.waf_mode, "NA"))>>
                           /\ route_i' = 1
                           /\ pc' = IF Len(spec.routes) = 0 THEN "return"
                                                            ELSE "routes"
                           /\ UNCHANGED <<NAMESPACE, namespaces, ns_i, lb_names,
                                          lb_i, lb_details, all_rows, csv,
                                          listed, fetched>>

\* Lines 152-187: one iteration of the loop over the routes.
extract_waf_rows_route(Resps) ==
    /\ pc = "routes"
    /\ route_i <= Len(lb_details.spec.routes)
    /\ \E r1 \in FirstResponses(
                    RouteNeedsCall(lb_details.spec.routes[route_i]), Resps) :
       \E r2 \in SecondResponses(lb_details.namespace, r1, Resps) :
          LET route == lb_details.spec.routes[route_i]
              res   == get_app_firewall_details(lb_details.namespace,
                            route.app_firewall.name, r1, r2)
              b     == route_binding(route, res, default_waf_name,
                                     default_waf_mode)
          IN  IF RouteNeedsCall(route) /\ res.raised
                THEN /\ calls' = Append(calls,
                            Call(route_i, lb_details.namespace,
                                 route.app_firewall.name, res))
                     /\ Abort
                ELSE /\ calls' = IF RouteNeedsCall(route)
                                   THEN Append(calls,
                                          Call(route_i, lb_details.namespace,
                                               route.app_firewall.name, res))
                                   ELSE calls
                     /\ rows' = Append(rows,
                                  Row(lb_details.namespace, lb_details.name,
                                      route_path(route.path),
                                      b.waf_name, b.waf_mode))
                     /\ route_i' = route_i + 1
                     /\ pc' = IF route_i = Len(lb_details.spec.routes)
                                THEN "return" ELSE "routes"
                     /\ UNCHANGED <<NAMESPACE, namespaces, ns_i, lb_names, lb_i,
                                    lb_details, default_waf_name,
                                    default_waf_mode, all_rows, csv, listed,
                                    fetched>>

\* Variant: the rows of a load balancer are put in front of the others.
extend_all_rows_prepend ==
    /\ pc = "return"
    /\ all_rows' = rows \o all_rows
    /\ lb_i' = lb_i + 1
    /\ IF lb_i = Len(lb_names)
         THEN /\ ns_i' = ns_i + 1
              /\ pc' = "ns_loop"
         ELSE /\ ns_i' = ns_i
              /\ pc' = "lb_loop"
    /\ UNCHANGED <<NAMESPACE, namespaces, lb_names, lb_details, rows,
                   default_waf_name, default_waf_mode, route_i, csv, calls,
                   listed, fetched>>

\* Lines 189 and 201, and the step of the loops of lines 196 and 198.
extend_all_rows ==
    /\ pc = "return"
    /\ all_rows' = all_rows \o rows
    /\ lb_i' = lb_i + 1
    /\ IF lb_i = Len(lb_names)
         THEN /\ ns_i' = ns_i + 1
              /\ pc' = "ns_loop"
         ELSE /\ ns_i' = ns_i
              /\ pc' = "lb_loop"
    /\ UNCHANGED <<NAMESPACE, namespaces, lb_names, lb_details, rows,
                   default_waf_name, default_waf_mode, route_i, csv, calls,
                   listed, fetched>>

\* csv.DictWriter: the values of a row in the order of fieldnames.
writerow(r) == <<r.namespace, r.lb_name, r.route, r.waf_name, r.waf_mode>>

\* Lines 204-213.
write_csv ==
    /\ pc = "ns_loop"
    /\ ns_i > Len(namespaces)
    /\ csv' = IF Len(all_rows) > 0
                THEN [written |-> TRUE,
                      lines |-> <<fieldnames>> \o
                                [i \in 1..Len(all_rows) |-> writerow(all_rows[i])]]
                ELSE csv
    /\ pc' = "done"
    /\ UNCHANGED <<NAMESPACE, namespaces, ns_i, lb_names, lb_i, lb_details,
                   rows, default_waf_name, default_waf_mode, route_i, all_rows,
                   calls, listed, fetched>>

\* The resolution of one load balancer, over every configuration and every
\* outcome of the firewall lookups.
Next ==
    \/ get_namespaces(OneNsListings)
    \/ get_http_loadbalancers(OneLbListings)
    \/ get_lb_details(LbSpecs)
    \/ extract_waf_rows_default(Responses)
    \/ extract_waf_rows_route(Responses)
    \/ extend_all_rows
    \/ write_csv

Spec == Init /\ [][Next]_vars

\* ---------------------------------------------------------------------
\* The export of a whole tenant: its namespaces hold, in all, up to MaxLbs
\* load balancers and up to MaxRoutes routes.
\* ---------------------------------------------------------------------
ExportResponses ==
    {[status |-> 404, json |-> EmptyDict], [status |-> 500, json |-> EmptyDict],
     [status |-> 200, json |-> [nonempty |-> TRUE, spec |-> {"blocking"}]]}

ExportRoutes ==
    {[disable_waf |-> FALSE, app_firewall |-> [present |-> FALSE, name |-> ""],
      path |-> <<>>],
     [disable_waf |-> FALSE, app_firewall |-> [present |-> TRUE, name |-> "fw1"],
      path |-> << <<"prefix", "/a">>, <<"regex", "b">> >>]}

RECURSIVE RoutesIn(_)
RoutesIn(details) ==
    IF Len(details) = 0 THEN 0
    ELSE Len(details[1].spec.routes) + RoutesIn(Tail(details))

\* The spec of one more load balancer; RoutesIn(fetched) routes were
\* fetched before.
ExportSpecs ==
    [disable_waf : {FALSE},
     app_firewall : {[present |-> FALSE, name |-> ""],
                     [present |-> TRUE, name |-> "fw1"]},
     routes : SeqsUpTo(ExportRoutes, MaxRoutes - RoutesIn(fetched))]

\* The namespaces the tenant lists (line 62): any of NsNames, in any order.
NsListings == {s \in SeqsUpTo(NsNames, Cardinality(NsNames)) : NoDup(s)}

\* The listing of one more namespace of a tenant that holds at most MaxLbs
\* load balancers; Len(fetched) of them were listed before.
LbListings ==
    {s \in SeqsUpTo(LbNames, MaxLbs - Len(fetched)) : NoDup(s)}

NextExport ==
    \/ get_namespaces(NsListings)
    \/ get_http_loadbalancers(LbListings)
    \/ get_lb_details(ExportSpecs)
    \/ extract_waf_rows_default(ExportResponses)
    \/ extract_waf_rows_route(ExportResponses)
    \/ extend_all_rows
    \/ write_csv

SpecExport == Init /\ [][NextExport]_vars

\* ---------------------------------------------------------------------
\* get_app_firewall_details on its own: up to MaxCalls calls, each with any
\* namespace, any name (the empty one included) and any responses.
\* ---------------------------------------------------------------------
InitLocate ==
    /\ pc = "locate"
    /\ NAMESPACE = "system"
    /\ namespaces = <<>>
    /\ ns_i = 1
    /\ lb_names = <<>>
    /\ lb_i = 1
    /\ lb_details = NoDetails
    /\ rows = <<>>
    /\ default_waf_name = ""
    /\ default_waf_mode = ""
    /\ route_i = 1
    /\ all_rows = <<>>
    /\ csv = [written |-> FALSE, lines |-> <<>>]
    /\ calls = <<>>
    /\ listed = <<>>
    /\ fetched = <<>>

locate ==
    /\ pc = "locate"
    /\ Len(calls) < MaxCalls
    /\ \E namespace \in NsNames, waf_name \in {"", "fw1"} :
       \E r1 \in FirstResponses(waf_name # "", Responses) :
       \E r2 \in SecondResponses(namespace, r1, Responses) :
          calls' = Append(calls,
                      Call(0, namespace, waf_name,
                           get_app_firewall_details(namespace, waf_name, r1, r2)))
    /\ UNCHANGED <<pc, NAMESPACE, namespaces, ns_i, lb_names, lb_i, lb_details,
                   rows, default_waf_name, default_waf_mode, route_i, all_rows,
                   csv, listed, fetched>>

NextLocate == locate

SpecLocate == InitLocate /\ [][NextLocate]_vars

\* ---------------------------------------------------------------------
\* Vocabulary of the properties
\* ---------------------------------------------------------------------
\* rows[1] is the default row of the current load balancer and rows[i + 1]
\* the row of its i-th route, once emitted.
HasRow(i) == lb_details.nonempty /\ Len(rows) >= i + 1

Pair(r) == <<r.waf_name, r.waf_mode>>

Disabled == <<"waf_disabled", "NA">>

\* The calls made for site k (0: the default binding, i: the i-th route).
SiteCalls(k) == {j \in 1..Len(calls) : calls[j].site = k}

Statuses(c) == {c.trace[j].status : j \in 1..Len(c.trace)}

NotFound(c) == ~c.raised /\ Len(c.trace) >= 1 /\ Statuses(c) = {404}

FoundLocal(c) == Len(c.trace) = 1 /\ c.trace[1].status = 200

FoundShared(c) == Len(c.trace) = 2 /\ c.trace[2].status = 200

Found(c) == FoundLocal(c) \/ FoundShared(c)

Fatal(c) == Statuses(c) \ {200, 404} # {}

RouteAt(i) == lb_details.spec.routes[i]

Overrides(route) == route.app_firewall.present /\ route.app_firewall.name # ""

Inherits(route) == ~route.disable_waf /\ ~Overrides(route)

RouteSites == 1..Len(lb_details.spec.routes)

\* ---------------------------------------------------------------------
\* C1: in every emitted row, waf_mode is "NA" if and only if waf_name is
\* "waf_disabled".
\* ---------------------------------------------------------------------
C1_ModeNAIffDisabled ==
    \A i \in 1..Len(rows) :
        (rows[i].waf_mode = "NA") <=> (rows[i].waf_name = "waf_disabled")

\* ---------------------------------------------------------------------
\* C2: with no disable marker and a default reference that is found neither
\* in the load balancer's namespace nor in shared, the default row is
\* (waf_disabled, NA), and so is the row of every route that inherits.
\* ---------------------------------------------------------------------
C2_DanglingDefaultDisabled ==
    \A j \in SiteCalls(0) :
        (NotFound(calls[j]) /\ HasRow(0)) =>
            /\ Pair(rows[1]) = Disabled
            /\ \A i \in RouteSites :
                  (HasRow(i) /\ Inherits(RouteAt(i))) =>
                      Pair(rows[i + 1]) = Disabled

\* ---------------------------------------------------------------------
\* C3: a firewall that is found, in the requesting namespace or in shared,
\* with neither mode key gives a row that keeps the firewall's name (with
\* the shared suffix if found there) and has an empty waf_mode; this for the
\* default row, for override rows and for rows that inherit the default.
\* ---------------------------------------------------------------------
Displayed(c) ==
    IF FoundShared(c) THEN c.waf_name \o " (shared)" ELSE c.waf_name

C3_NoModeKeepsNameEmptyMode ==
    \A j \in 1..Len(calls) :
        LET c == calls[j]
        IN  (Found(c) /\ c.details.spec \cap ModeKeys = {}) =>
                /\ HasRow(c.site) =>
                      /\ rows[c.site + 1].waf_mode = ""
                      /\ rows[c.site + 1].waf_name \in
                            {c.waf_name, c.waf_name \o " (shared)"}
                /\ c.site = 0 =>
                      \A i \in RouteSites :
                          (HasRow(i) /\ Inherits(RouteAt(i))) =>
                              /\ rows[i + 1].waf_mode = ""
                              /\ rows[i + 1].waf_name = rows[1].waf_name

\* ---------------------------------------------------------------------
\* C4: for every lookup made for a default binding or an override, whatever
\* the requesting namespace (shared included): found in the requesting
\* namespace, the displayed name carries no " (shared)" suffix; found only
\* in shared (the requesting namespace being another), the displayed name is
\* the firewall's name followed by " (shared)".
\* ---------------------------------------------------------------------
C4_SharedSuffix ==
    \A j \in 1..Len(calls) :
        LET c == calls[j]
        IN  HasRow(c.site) =>
                /\ FoundLocal(c) =>
                      rows[c.site + 1].waf_name # c.waf_name \o " (shared)"
                /\ (FoundShared(c) /\ c.namespace # "shared") =>
                      rows[c.site + 1].waf_name = c.waf_name \o " (shared)"

\* ---------------------------------------------------------------------
\* C5: the row of a route that neither carries the disable marker nor names
\* an override (no advanced options, or an override with an empty name) has
\* the (waf_name, waf_mode) pair of the load balancer's default row.
\* ---------------------------------------------------------------------
C5_InheritEqualsDefault ==
    \A i \in RouteSites :
        (HasRow(i) /\ Inherits(RouteAt(i))) => Pair(rows[i + 1]) = Pair(rows[1])

C5_Witness ==
    \E i \in RouteSites :
        /\ HasRow(i)
        /\ Inherits(RouteAt(i))
        /\ RouteAt(i).app_firewall.present
        /\ rows[1].waf_name = "fw1 (shared)"
        /\ rows[1].waf_mode = "blocking"

\* ---------------------------------------------------------------------
\* C6: a route without the disable marker whose override is found neither in
\* the load balancer's namespace nor in shared gets the row
\* (namespace, lb, path, waf_disabled, NA), whatever the default binding is:
\* the call does not raise, and the pair is that of a route that disables.
\* ---------------------------------------------------------------------
C6_DanglingOverrideDisabled ==
    \A j \in 1..Len(calls) :
        LET c == calls[j]
        IN  (c.site >= 1 /\ Statuses(c) = {404}) =>
                /\ ~c.raised
                /\ HasRow(c.site)
                /\ rows[c.site + 1] =
                      Row(lb_details.namespace, lb_details.name,
                          route_path(RouteAt(c.site).path), "waf_disabled", "NA")
                /\ \A i \in RouteSites :
                      (HasRow(i) /\ RouteAt(i).disable_waf) =>
                          Pair(rows[i + 1]) = Pair(rows[c.site + 1])

C6_Witness ==
    \E j \in 1..Len(calls) :
        /\ calls[j].site >= 1
        /\ Len(calls[j].trace) = 2
        /\ NotFound(calls[j])
        /\ HasRow(calls[j].site)
        /\ Pair(rows[1]) = <<"fw1", "monitoring">>
        /\ \E i \in RouteSites : HasRow(i) /\ RouteAt(i).disable_waf

\* ---------------------------------------------------------------------
\* C7: a firewall lookup that fails with anything but not-found, in either
\* stage, is the last lookup of its call and the last call of the run: the
\* call raises, the script is aborted, nothing is written, rows accumulated
\* for earlier load balancers included, and no step follows the abort.
\* ---------------------------------------------------------------------
FatalAborts ==
    \A j \in 1..Len(calls) :
        LET c == calls[j]
        IN  Fatal(c) =>
                /\ c.raised
                /\ c.trace[Len(c.trace)].status \notin {200, 404}
                /\ \A k \in 1..(Len(c.trace) - 1) : c.trace[k].status = 404
                /\ j = Len(calls)
                /\ pc = "aborted"
                /\ csv = [written |-> FALSE, lines |-> <<>>]

C7_FatalLookupAbortsExport ==
    [][(pc # "aborted") /\ FatalAborts']_vars

C7_Witness ==
    /\ pc = "aborted"
    /\ Len(all_rows) > 0
    /\ ns_i < Len(namespaces)
    /\ Len(calls) > 0
    /\ calls[Len(calls)].site >= 1
    /\ Len(calls[Len(calls)].trace) = 2
    /\ Fatal(calls[Len(calls)])

\* ---------------------------------------------------------------------
\* C8 as stated: at the end of a run without failure the exported rows are,
\* in namespace order then listing order, one block per load balancer, each
\* of 1 + (number of routes) rows: the default row with route "NA", then one
\* row per route in stored order.
\* C8 as amended: the same, but a load balancer whose configuration is the
\* empty object contributes no row at all.
\* ---------------------------------------------------------------------
RECURSIVE Flatten(_)
Flatten(ls) ==
    IF Len(ls) = 0 THEN <<>>
    ELSE [i \in 1..Len(ls[1][2]) |-> <<ls[1][1], ls[1][2][i]>>]
         \o Flatten(Tail(ls))

\* The (namespace, lb_name, route) keys expected of the k-th load balancer
\* listed, whose configuration is d.
Block(key, d) ==
    <<<<key[1], key[2], "NA">>>> \o
    [i \in 1..Len(d.spec.routes) |->
        <<key[1], key[2], route_path(d.spec.routes[i].path)>>]

RECURSIVE Blocks(_, _, _)
Blocks(keys, ds, skipEmpty) ==
    IF Len(keys) = 0 \/ Len(ds) = 0 THEN <<>>
    ELSE (IF skipEmpty /\ ~ds[1].nonempty THEN <<>> ELSE Block(keys[1], ds[1]))
         \o Blocks(Tail(keys), Tail(ds), skipEmpty)

\* The rows of the output file, without the header.
Exported == IF csv.written THEN Tail(csv.lines) ELSE <<>>

ExportedKeys == [i \in 1..Len(Exported) |-> SubSeq(Exported[i], 1, 3)]

ListedInOrder ==
    /\ Len(listed) = Len(namespaces)
    /\ \A k \in 1..Len(listed) : listed[k][1] = namespaces[k]
    /\ Len(fetched) = Len(Flatten(listed))

C8_OneBlockPerLoadBalancer ==
    pc = "done" =>
        /\ ListedInOrder
        /\ ExportedKeys = Blocks(Flatten(listed), fetched, FALSE)

C8_OneBlockPerNonEmptyLoadBalancer ==
    pc = "done" =>
        /\ ListedInOrder
        /\ ExportedKeys = Blocks(Flatten(listed), fetched, TRUE)
        /\ \A i \in 1..Len(Exported) : Exported[i] = writerow(all_rows[i])
        /\ Len(Exported) = Len(all_rows)

C8_Witness ==
    /\ pc = "done"
    /\ Len(listed) = 2
    /\ Len(listed[1][2]) = 1
    /\ Len(fetched) = 2
    /\ fetched[1].nonempty
    /\ fetched[2].nonempty
    /\ Len(fetched[2].spec.routes) = 2
    /\ fetched[2].spec.routes[1].path # fetched[2].spec.routes[2].path
    /\ Len(Exported) = 4

\* ---------------------------------------------------------------------
\* C9: one call of get_app_firewall_details: no lookup and (absent, absent)
\* for an empty name; otherwise a first lookup in the requesting namespace
\* and a second one, in shared, if and only if the first returned not-found
\* and the requesting namespace is not shared; at most two lookups, never
\* two in one namespace; the result is (absent, absent) exactly when every
\* lookup attempted returned not-found.
\* ---------------------------------------------------------------------
Absent(c) == c.details = EmptyDict /\ c.source = NoSource

C9_LookupOrder ==
    \A j \in 1..Len(calls) :
        LET c == calls[j]
            n == Len(c.trace)
        IN  /\ c.waf_name = "" => (n = 0 /\ ~c.raised /\ Absent(c))
            /\ c.waf_name # "" => (n >= 1 /\ c.trace[1].ns = c.namespace)
            /\ n <= 2
            /\ n = 2 <=> /\ c.waf_name # ""
                         /\ c.trace[1].status = 404
                         /\ c.namespace # "shared"
            /\ n = 2 => (c.trace[2].ns = "shared" /\ c.trace[1].ns # "shared")
            /\ ~c.raised => (Absent(c) <=> Statuses(c) \subseteq {404})

C9_Witness ==
    /\ pc = "locate"
    /\ \E j \in 1..Len(calls) : Len(calls[j].trace) = 2 /\ NotFound(calls[j])
    /\ \E j \in 1..Len(calls) :
          /\ calls[j].namespace = "shared"
          /\ NotFound(calls[j])
    /\ \E j \in 1..Len(calls) : calls[j].waf_name = ""

\* ---------------------------------------------------------------------
\* C10: within one load balancer a call of get_app_firewall_details is made
\* only for a binding that needs it: for the default only without the disable
\* marker and with a default reference; for a route only without the disable
\* marker and with an override; the default is located at most once, before
\* every route, and no site is located twice.
\* ---------------------------------------------------------------------
C10_LookupsOnlyWhenNeeded ==
    /\ \A j \in 1..Len(calls) :
          LET c == calls[j]
          IN  /\ Len(c.trace) >= 1
              /\ c.namespace = lb_details.namespace
              /\ c.site = 0 =>
                    /\ j = 1
                    /\ ~lb_details.spec.disable_waf
                    /\ lb_details.spec.app_firewall.present
                    /\ c.waf_name = lb_details.spec.app_firewall.name
              /\ c.site # 0 =>
                    /\ c.site \in RouteSites
                    /\ ~RouteAt(c.site).disable_waf
                    /\ RouteAt(c.site).app_firewall.present
                    /\ c.waf_name = RouteAt(c.site).app_firewall.name
    /\ \A j, k \in 1..Len(calls) : j < k => calls[j].site < calls[k].site

C10_Witness ==
    /\ pc = "return"
    /\ Len(rows) = 3
    /\ SiteCalls(0) = {1}
    /\ RouteAt(1).disable_waf
    /\ Overrides(RouteAt(1))
    /\ Inherits(RouteAt(2))
    /\ Len(calls) = 1

====
